---- MODULE Spec2Model ----
(***************************************************************************)
(* G1 allocation regions (src/hotspot/share/gc/g1/g1AllocRegion.cpp).      *)
(*                                                                         *)
(* One alloc region object (mutator or evacuation variant, fixed at        *)
(* construction), its owner thread executing init / set / reuse /          *)
(* new_alloc_region_and_allocate / retire / release one shared-memory      *)
(* access per step, and lock-free allocator threads racing the fast path   *)
(* against the active region.  Assertions are the debug build's: a failed  *)
(* assertion stops the VM (failed # "none").                               *)
(***************************************************************************)
EXTENDS Integers, FiniteSets, Sequences, TLC

\* ------------------------------------------------------------------ bounds
RegionWords == 6       \* capacity of a region, in words (GrainWords scaled down)
MaxSets == 1           \* set / reuse calls over the whole run

\* --------------------------------------------------------------- constants
HeapWordSize == 8      \* bytes per word
MinFillWords == 2      \* CollectedHeap::min_fill_size(), in words
MinTLABSize == 16      \* MinTLABSize, in bytes (scaled down with the region)

nullptr == 0
dummy_region == 1
Regions == {2, 3}       \* the real regions the heap owns
Threads == {1, 2}       \* lock-free allocator threads
Allocators == {1}       \* ... those running beside the full life cycle (Spec)
\* Every allocation request is at least the minimum fill size (lines 66-70);
\* a region can hold the first allocation made on it (line 139).
AllocSizes == MinFillWords..RegionWords
FastPathSizes == {MinFillWords, MinFillWords + 1}

VARIABLES
  kind,                  \* "mutator" | "gc": the concrete subclass
  top,                   \* region -> words allocated (G1HeapRegion::_top - bottom)
  rstate,                \* region -> "free" | "held" | "retired" (the heap's view)
  alloc_region,          \* _alloc_region
  count,                 \* _count
  retained_alloc_region, \* MutatorAllocRegion::_retained_alloc_region
  wasted_bytes,          \* MutatorAllocRegion::_wasted_bytes
  used_bytes_before,     \* G1GCAllocRegion::_used_bytes_before
  stats,                 \* G1EvacStats: [calls, words] of add_region_end_waste
  failed,                \* "none", or the message of the assertion that failed
  opc,                   \* owner thread: program location
  loc,                   \* owner thread: locals of the running operation
  ret,                   \* owner thread: last operation and what it returned
  tpc,                   \* allocator thread -> "idle" | "loaded"
  treg,                  \* allocator thread -> region it read from _alloc_region
  tsize,                 \* allocator thread -> words its last call requested
  tres,                  \* allocator thread -> result of its last call
  granted,               \* history: spans handed out, [r, start, size, by, who]
  hooks,                 \* history: region -> number of retire_region calls
  installed,             \* history: region -> its top when it was made the active region
  sets                   \* history: number of set / reuse calls

vars == <<kind, top, rstate, alloc_region, count, retained_alloc_region,
          wasted_bytes, used_bytes_before, stats, failed, opc, loc, ret,
          tpc, treg, tsize, tres, granted, hooks, installed, sets>>

heapVars == <<top, rstate, granted, hooks, installed, sets>>
objVars == <<alloc_region, count, retained_alloc_region, wasted_bytes,
             used_bytes_before, stats>>
threadVars == <<tpc, treg, tsize, tres>>

\* ------------------------------------------------------- region primitives
used(r) == top[r] * HeapWordSize
free(r) == (RegionWords - top[r]) * HeapWordSize
is_empty(r) == top[r] = 0

\* Fault: a bump that does not compare the request with what is free.
CanAllocate_Always(r, w) == TRUE

\* G1HeapRegion::par_allocate(word_size): the atomic bump of top.
CanAllocate(r, w) == RegionWords - top[r] >= w
BumpTop(r, w) == [top EXCEPT ![r] = @ + w]
\* A span handed out: by is "first", "alloc" or "filler"; who is the allocator
\* thread it went to (0: the owner thread).
Span(r, w, by, who) ==
  [r |-> r, start |-> top[r], size |-> w, by |-> by, who |-> who]

\* G1AllocRegion::get(): the dummy region does not escape the class.
get == IF alloc_region = dummy_region THEN nullptr ELSE alloc_region

\* The owner thread's locals, named as in the source:
\*   region          retire: alloc_region / current_region; acquisition: new_alloc_region
\*   fill_up         retire's argument
\*   in_release      retire was called by release()
\*   rel_region      release: alloc_region (captured at line 185)
\*   retired         G1GCAllocRegion::retire: retired
\*   ri_region, ri_fill, ri_cont   retire_internal's arguments and its caller
\*   free_word_size, result        fill_up_remaining_space's locals
\*   waste           retire's waste
\*   free_bytes      should_retain's free_bytes
\* and, for the properties, what the running operation has done so far:
\*   free0           retire(fill_up = true): free bytes of the active region
\*                   when it was called
\*   filled, hooked  regions it stamped a filler in / passed to retire_region
\*   reported        bytes its last retire_region call reported to the heap
\*   kept            the region it decided to retain (mutator)
NoLocals == [region |-> nullptr, fill_up |-> FALSE, in_release |-> FALSE,
             rel_region |-> nullptr, retired |-> nullptr,
             ri_region |-> nullptr, ri_fill |-> FALSE, ri_cont |-> "none",
             free_word_size |-> 0, result |-> 0, waste |-> 0,
             free_bytes |-> 0,
             free0 |-> 0, filled |-> {}, hooked |-> {}, reported |-> 0,
             kept |-> nullptr]

NoRet == [op |-> "none", value |-> 0]

\* The state of the core as section 4.1 of the design names it.
CoreState ==
  IF alloc_region = nullptr THEN "UNSET"
  ELSE IF alloc_region = dummy_region THEN "IDLE" ELSE "ACTIVE"

\* Fault: a dummy region with room for a minimal allocation.
DummyTop_NotFull == RegionWords - MinFillWords

\* -------------------------------------------------------------------- Init
DummyTop == RegionWords

Init ==
  /\ kind \in {"mutator", "gc"}
  /\ top = [r \in {dummy_region} \cup Regions |->
              IF r = dummy_region THEN DummyTop ELSE 0]
  /\ rstate = [r \in Regions |-> "free"]
  /\ alloc_region = nullptr
  /\ count = 0
  /\ retained_alloc_region = nullptr
  /\ wasted_bytes = 0
  /\ used_bytes_before = 0
  /\ stats = [calls |-> 0, words |-> 0]
  /\ failed = "none"
  /\ opc = "idle"
  /\ loc = NoLocals
  /\ ret = NoRet
  /\ tpc = [t \in Threads |-> "idle"]
  /\ treg = [t \in Threads |-> nullptr]
  /\ tsize = [t \in Threads |-> 0]
  /\ tres = [t \in Threads |-> "none"]
  /\ granted = {}
  /\ hooks = [r \in Regions |-> 0]
  /\ installed = [r \in Regions |-> 0]
  /\ sets = 0

\* The preconditions the operations assert on entry.
pre_init == /\ alloc_region = nullptr
            /\ kind = "mutator" => retained_alloc_region = nullptr
pre_set(r) == /\ alloc_region = dummy_region /\ count = 0
              /\ r # nullptr /\ ~is_empty(r)
pre_new_alloc_region_and_allocate == alloc_region = dummy_region
pre_retire == alloc_region # nullptr
pre_attempt_allocation == alloc_region # nullptr

Running == failed = "none"
Idle == Running /\ opc = "idle"

Fail(msg) == /\ failed' = msg
             /\ UNCHANGED <<kind, heapVars, objVars, opc, loc, ret, threadVars>>

\* The running operation returns value to the caller.
Return(op, value) ==
  /\ opc' = "idle"
  /\ loc' = NoLocals
  /\ ret' = [op |-> op, value |-> value]


\* ------------------------------------------------------------ fast path
\* Fault: an allocator that is refused resets the active region itself.
Allocate_ParAllocate_Resets(t) ==
  /\ Running /\ tpc[t] = "loaded"
  /\ LET r == treg[t]
         w == tsize[t]
     IN IF CanAllocate(r, w)
          THEN /\ top' = BumpTop(r, w)
               /\ granted' = granted \cup {Span(r, w, "alloc", t)}
               /\ tres' = [tres EXCEPT ![t] = "ok"]
               /\ UNCHANGED alloc_region
          ELSE /\ tres' = [tres EXCEPT ![t] = "null"]
               /\ alloc_region' = dummy_region
               /\ UNCHANGED <<top, granted>>
  /\ tpc' = [tpc EXCEPT ![t] = "idle"]
  /\ treg' = [treg EXCEPT ![t] = nullptr]
  /\ UNCHANGED <<kind, rstate, hooks, installed, sets, count,
                 retained_alloc_region, wasted_bytes, used_bytes_before, stats,
                 failed, opc, loc, ret, tsize>>

\* G1AllocRegion::attempt_allocation: read _alloc_region ...
Allocate_Load(t) ==
  /\ Running /\ tpc[t] = "idle"
  /\ pre_attempt_allocation
  /\ \E w \in FastPathSizes :
       /\ tpc' = [tpc EXCEPT ![t] = "loaded"]
       /\ treg' = [treg EXCEPT ![t] = alloc_region]
       /\ tsize' = [tsize EXCEPT ![t] = w]
       /\ tres' = [tres EXCEPT ![t] = "pending"]
       /\ UNCHANGED <<kind, heapVars, objVars, failed, opc, loc, ret>>

\* ... then par_allocate on the region that was read.
Allocate_ParAllocate(t) ==
  /\ Running /\ tpc[t] = "loaded"
  /\ LET r == treg[t]
         w == tsize[t]
     IN IF CanAllocate(r, w)
          THEN /\ top' = BumpTop(r, w)
               /\ granted' = granted \cup {Span(r, w, "alloc", t)}
               /\ tres' = [tres EXCEPT ![t] = "ok"]
          ELSE /\ tres' = [tres EXCEPT ![t] = "null"]
               /\ UNCHANGED <<top, granted>>
  /\ tpc' = [tpc EXCEPT ![t] = "idle"]
  /\ treg' = [treg EXCEPT ![t] = nullptr]
  /\ UNCHANGED <<kind, rstate, hooks, installed, sets, objVars, failed, opc, loc, ret,
                 tsize>>

\* -------------------------------------------------------------- init / set
\* Fault: MutatorAllocRegion::init without line 255.
init_KeepsWaste ==
  /\ Idle
  /\ pre_init
  /\ alloc_region' = dummy_region
  /\ count' = 0
  /\ Return("init", 0)
  /\ UNCHANGED <<kind, heapVars, retained_alloc_region, wasted_bytes,
                 used_bytes_before, stats, failed, threadVars>>

\* G1AllocRegion::init, MutatorAllocRegion::init
init ==
  /\ Idle
  /\ pre_init
  /\ alloc_region' = dummy_region
  /\ count' = 0
  /\ wasted_bytes' = IF kind = "mutator" THEN 0 ELSE wasted_bytes
  /\ Return("init", 0)
  /\ UNCHANGED <<kind, heapVars, retained_alloc_region,
                 used_bytes_before, stats, failed, threadVars>>

\* Fault: update_alloc_region without line 179.
update_alloc_region_NoCount(r) ==
  /\ alloc_region' = r
  /\ count' = count

\* G1AllocRegion::update_alloc_region
update_alloc_region(r) ==
  /\ alloc_region' = r
  /\ count' = count + 1

\* G1AllocRegion::set(alloc_region); G1GCAllocRegion::reuse snapshots first.
SetRegion(r, op) ==
  /\ pre_set(r)
  /\ update_alloc_region(r)
  /\ rstate' = [rstate EXCEPT ![r] = "held"]
  /\ used_bytes_before' = IF op = "reuse" THEN used(r) ELSE used_bytes_before
  /\ sets' = sets + 1
  /\ Return(op, r)
  /\ installed' = [installed EXCEPT ![r] = top[r]]
  /\ UNCHANGED <<kind, top, granted, hooks, retained_alloc_region,
                 wasted_bytes, stats, failed, threadVars>>

\* The caller passes a region this object does not hold.
set ==
  /\ Idle /\ sets < MaxSets
  /\ \E r \in Regions : rstate[r] # "held" /\ SetRegion(r, "set")

\* Fault: reuse without the snapshot of line 350.
reuse_NoSnapshot ==
  /\ Idle /\ sets < MaxSets /\ kind = "gc"
  /\ \E r \in Regions :
       /\ rstate[r] # "held"
       /\ pre_set(r)
       /\ update_alloc_region(r)
       /\ rstate' = [rstate EXCEPT ![r] = "held"]
       /\ sets' = sets + 1
       /\ installed' = [installed EXCEPT ![r] = top[r]]
       /\ Return("reuse", r)
       /\ UNCHANGED <<kind, top, granted, hooks, retained_alloc_region,
                      wasted_bytes, used_bytes_before, stats, failed,
                      threadVars>>

reuse ==
  /\ Idle /\ sets < MaxSets /\ kind = "gc"
  /\ \E r \in Regions : rstate[r] # "held" /\ SetRegion(r, "reuse")

\* ------------------------------------------------------------ acquisition
\* Fault: an acquisition the heap refuses is counted all the same.
new_alloc_region_and_allocate_CountsRefusal ==
  /\ Idle
  /\ pre_new_alloc_region_and_allocate
  /\ \E w \in AllocSizes :
       \/ /\ Return("new", nullptr)
          /\ count' = count + 1
          /\ UNCHANGED <<kind, heapVars, alloc_region, retained_alloc_region,
                         wasted_bytes, used_bytes_before, stats, failed,
                         threadVars>>
       \/ \E r \in Regions :
            /\ rstate[r] = "free"
            /\ \A q \in Regions : q < r => rstate[q] # "free"
            /\ rstate' = [rstate EXCEPT ![r] = "held"]
            /\ top' = BumpTop(r, w)
            /\ granted' = granted \cup {Span(r, w, "first", 0)}
            /\ installed' = [installed EXCEPT ![r] = top[r]]
            /\ opc' = "publish"
            /\ loc' = [NoLocals EXCEPT !.region = r]
            /\ UNCHANGED <<kind, hooks, sets, objVars, failed, ret,
                           threadVars>>

\* Fault: the fresh region is published without the first allocation.
new_alloc_region_and_allocate_NoFirst ==
  /\ Idle
  /\ pre_new_alloc_region_and_allocate
  /\ \/ /\ Return("new", nullptr)
        /\ UNCHANGED <<kind, heapVars, objVars, failed, threadVars>>
     \/ \E r \in Regions :
          /\ rstate[r] = "free"
          /\ \A q \in Regions : q < r => rstate[q] # "free"
          /\ rstate' = [rstate EXCEPT ![r] = "held"]
          /\ opc' = "publish"
          /\ loc' = [NoLocals EXCEPT !.region = r]
          /\ UNCHANGED <<kind, top, granted, hooks, installed, sets, objVars, failed, ret,
                         threadVars>>

\* G1AllocRegion::new_alloc_region_and_allocate, lines 130-139: ask the heap
\* for a region and perform the first allocation on it.
new_alloc_region_and_allocate ==
  /\ Idle
  /\ pre_new_alloc_region_and_allocate
  /\ \E w \in AllocSizes :
       \/ \* allocate_new_region returned nullptr
          /\ Return("new", nullptr)
          /\ UNCHANGED <<kind, heapVars, objVars, failed, threadVars>>
       \/ \E r \in Regions :
            /\ rstate[r] = "free"
            /\ \A q \in Regions : q < r => rstate[q] # "free"
            /\ rstate' = [rstate EXCEPT ![r] = "held"]
            /\ top' = BumpTop(r, w)
            /\ granted' = granted \cup {Span(r, w, "first", 0)}
            /\ opc' = "publish"
            /\ loc' = [NoLocals EXCEPT !.region = r]
            /\ installed' = [installed EXCEPT ![r] = top[r]]
            /\ UNCHANGED <<kind, hooks, sets, objVars, failed, ret,
                           threadVars>>

\* lines 141-147: storestore, then update_alloc_region(new_alloc_region).
new_alloc_region_publish ==
  /\ Running /\ opc = "publish"
  /\ IF is_empty(loc.region)
       THEN Fail("update_alloc_region: pre-condition")
       ELSE /\ update_alloc_region(loc.region)
            /\ Return("new", loc.region)
            /\ UNCHANGED <<kind, heapVars, retained_alloc_region, wasted_bytes,
                           used_bytes_before, stats, failed, threadVars>>

\* ------------------------------------------------------------------ retire
\* A step of the owner thread makes at most one access to memory that the
\* allocator threads write (a region's top); what precedes or follows it and
\* touches the owner's own state only is taken in the same step.

\* retire returns waste w to its caller; release() goes on at line 187.
RetireReturn(w, l) ==
  IF l.in_release
    THEN /\ opc' = "release_post"
         /\ loc' = [l EXCEPT !.waste = w]
         /\ UNCHANGED ret
    ELSE Return("retire", w)

\* Fault: retire_internal without lines 104-106.
CallRetireInternal_NoFill(l, r, fill, cont, fresh) ==
  LET m == [l EXCEPT !.ri_region = r, !.ri_fill = fill, !.ri_cont = cont]
  IN IF is_empty(r)
       THEN /\ failed' = "the alloc region should never be empty"
            /\ UNCHANGED <<opc, loc>>
       ELSE /\ opc' = "hook"
            /\ loc' = [m EXCEPT !.waste = 0]
            /\ UNCHANGED failed

\* retire_internal(r, fill) is called from the call site cont, lines 100-105;
\* fresh: the calling step has read no region's top yet, and takes
\* fill_up_remaining_space's first read of free() (line 64) with it.
CallRetireInternal(l, r, fill, cont, fresh) ==
  LET m == [l EXCEPT !.ri_region = r, !.ri_fill = fill, !.ri_cont = cont]
      fws == free(r) \div HeapWordSize
  IN IF is_empty(r)
       THEN /\ failed' = "the alloc region should never be empty"
            /\ UNCHANGED <<opc, loc>>
     ELSE IF ~fill
       THEN /\ opc' = "hook"
            /\ loc' = [m EXCEPT !.waste = 0]
            /\ UNCHANGED failed
     ELSE IF fresh
       THEN /\ opc' = IF fws >= MinFillWords THEN "fill_loop" ELSE "fill_done"
            /\ loc' = [m EXCEPT !.free_word_size = fws, !.result = 0]
            /\ UNCHANGED failed
     ELSE /\ opc' = "ri_enter"
          /\ loc' = m
          /\ UNCHANGED failed

\* Fault: release() without its assertion at line 187.
ReleasePost_NoPostCondition(l) ==
  /\ alloc_region' = nullptr
  /\ IF kind = "mutator" /\ retained_alloc_region # nullptr
       THEN /\ CallRetireInternal(l, retained_alloc_region, FALSE,
                                  "mut_release", FALSE)
            /\ UNCHANGED ret
       ELSE /\ Return("release",
                      IF l.rel_region = dummy_region THEN nullptr
                      ELSE l.rel_region)
            /\ UNCHANGED failed
  /\ UNCHANGED <<kind, heapVars, count, retained_alloc_region,
                 wasted_bytes, used_bytes_before, stats, threadVars>>

\* Fault: MutatorAllocRegion::release without lines 316-319.
ReleasePost_LeaksRetained(l) ==
  IF alloc_region # dummy_region
    THEN Fail("release: post-condition of retire()")
    ELSE /\ alloc_region' = nullptr
         /\ Return("release",
                   IF l.rel_region = dummy_region THEN nullptr
                   ELSE l.rel_region)
         /\ UNCHANGED <<kind, heapVars, count, retained_alloc_region,
                        wasted_bytes, used_bytes_before, stats, failed,
                        threadVars>>

\* G1AllocRegion::release, lines 187-190, and MutatorAllocRegion::release,
\* line 316, with locals l.
ReleasePost(l) ==
  IF alloc_region # dummy_region
    THEN Fail("release: post-condition of retire()")
    ELSE /\ alloc_region' = nullptr
         /\ IF kind = "mutator" /\ retained_alloc_region # nullptr
              THEN /\ CallRetireInternal(l, retained_alloc_region, FALSE,
                                         "mut_release", FALSE)
                   /\ UNCHANGED ret
              ELSE /\ Return("release",
                             IF l.rel_region = dummy_region THEN nullptr
                             ELSE l.rel_region)
                   /\ UNCHANGED failed
         /\ UNCHANGED <<kind, heapVars, count, retained_alloc_region,
                        wasted_bytes, used_bytes_before, stats, threadVars>>

\* MutatorAllocRegion::should_retain: the decision once the frees are read.
should_retain(free_bytes, has_retained, retained_free) ==
  IF free_bytes < MinTLABSize THEN FALSE
  ELSE IF has_retained /\ free_bytes < retained_free THEN FALSE
  ELSE TRUE

\* G1GCAllocRegion::retire, line 340, and G1AllocRegion::retire, lines 114-121,
\* entered with locals l.
retire_entry_base(l) ==
  IF alloc_region = nullptr
    THEN Fail("retire: not initialized properly")
  ELSE IF alloc_region # dummy_region
    THEN /\ CallRetireInternal([l EXCEPT !.retired = get, !.region = alloc_region],
                               alloc_region, l.fill_up, "base", TRUE)
         /\ UNCHANGED <<kind, heapVars, objVars, ret, threadVars>>
  ELSE IF l.in_release
    THEN ReleasePost(l)
    ELSE /\ Return("retire", 0)
         /\ UNCHANGED <<kind, heapVars, objVars, failed, threadVars>>

\* MutatorAllocRegion::retire, lines 275-279, entered with locals l, up to
\* should_retain's read of region->free() (line 259) and its first test.
retire_entry_mutator(l) ==
  LET current_region == get
      free_bytes == free(current_region)
      m == [l EXCEPT !.region = current_region, !.free_bytes = free_bytes]
  IN IF current_region = nullptr
       THEN IF l.in_release
              THEN ReleasePost(l)
              ELSE /\ Return("retire", 0)
                   /\ UNCHANGED <<kind, heapVars, objVars, failed, threadVars>>
     ELSE IF ~should_retain(free_bytes, FALSE, 0)
       THEN /\ CallRetireInternal(m, current_region, l.fill_up, "mut_current", FALSE)
            /\ UNCHANGED <<kind, heapVars, objVars, ret, threadVars>>
     ELSE IF retained_alloc_region = nullptr
       THEN /\ opc' = "ri_return"
            /\ loc' = [m EXCEPT !.ri_cont = "mut_retained", !.kept = current_region]
            /\ UNCHANGED <<kind, heapVars, objVars, failed, ret, threadVars>>
       ELSE /\ opc' = "should_retain"
            /\ loc' = m
            /\ UNCHANGED <<kind, heapVars, objVars, failed, ret, threadVars>>

\* The virtual call retire(fill_up).
retire_entry(l) ==
  IF kind = "gc" THEN retire_entry_base(l) ELSE retire_entry_mutator(l)

\* The caller invokes retire(fill_up).
retire ==
  /\ Idle
  /\ pre_retire
  /\ \E f \in BOOLEAN :
       retire_entry([NoLocals EXCEPT !.fill_up = f,
                                     !.free0 = IF f THEN free(alloc_region) ELSE 0])

\* Fault: release() retires with fill-up.
release_FillUp ==
  /\ Idle
  /\ retire_entry([NoLocals EXCEPT !.in_release = TRUE, !.fill_up = TRUE,
                                   !.rel_region = alloc_region])

\* The caller invokes release(): G1AllocRegion::release, lines 185-186,
\* captures _alloc_region and calls retire(false).
release ==
  /\ Idle
  /\ retire_entry([NoLocals EXCEPT !.in_release = TRUE,
                                   !.rel_region = alloc_region])

\* Fault: the displaced retained region is retired with the caller's fill_up.
should_retain_compare_CallerFill ==
  /\ Running /\ opc = "should_retain"
  /\ IF should_retain(loc.free_bytes, TRUE, free(retained_alloc_region))
       THEN CallRetireInternal([loc EXCEPT !.kept = loc.region],
                               retained_alloc_region, loc.fill_up,
                               "mut_retained", FALSE)
       ELSE CallRetireInternal(loc, loc.region, loc.fill_up, "mut_current", FALSE)
  /\ UNCHANGED <<kind, heapVars, objVars, ret, threadVars>>

\* should_retain, lines 264-269: compare with the retained region's free().
should_retain_compare ==
  /\ Running /\ opc = "should_retain"
  /\ IF should_retain(loc.free_bytes, TRUE, free(retained_alloc_region))
       THEN CallRetireInternal([loc EXCEPT !.kept = loc.region],
                               retained_alloc_region, TRUE, "mut_retained", FALSE)
       ELSE CallRetireInternal(loc, loc.region, loc.fill_up, "mut_current", FALSE)
  /\ UNCHANGED <<kind, heapVars, objVars, ret, threadVars>>

\* fill_up_remaining_space, line 64: the first read of free().
retire_internal_enter ==
  /\ Running /\ opc = "ri_enter"
  /\ LET fws == free(loc.ri_region) \div HeapWordSize
     IN /\ opc' = IF fws >= MinFillWords THEN "fill_loop" ELSE "fill_done"
        /\ loc' = [loc EXCEPT !.free_word_size = fws, !.result = 0]
  /\ UNCHANGED <<kind, heapVars, objVars, failed, ret, threadVars>>

\* Fault: fill_up_remaining_space without line 80.
fill_par_allocate_NoWaste ==
  /\ Running /\ opc = "fill_loop"
  /\ LET r == loc.ri_region
         w == loc.free_word_size
     IN IF CanAllocate(r, w)
          THEN /\ top' = BumpTop(r, w)
               /\ granted' = granted \cup {Span(r, w, "filler", 0)}
               /\ opc' = "fill_done"
               /\ loc' = [loc EXCEPT !.filled = @ \cup {r}]
          ELSE /\ opc' = "fill_reread"
               /\ UNCHANGED <<top, granted, loc>>
  /\ UNCHANGED <<kind, rstate, hooks, installed, sets, objVars, failed, ret, threadVars>>

\* Fault: the filler is stamped at the size read earlier, whatever the
\* allocator threads have taken since.
fill_par_allocate_Unchecked ==
  /\ Running /\ opc = "fill_loop"
  /\ LET r == loc.ri_region
         w == loc.free_word_size
     IN /\ top' = BumpTop(r, w)
        /\ granted' = granted \cup {Span(r, w, "filler", 0)}
        /\ opc' = "fill_done"
        /\ loc' = [loc EXCEPT !.result = @ + w * HeapWordSize,
                              !.filled = @ \cup {r}]
  /\ UNCHANGED <<kind, rstate, hooks, installed, sets, objVars, failed, ret, threadVars>>

\* fill_up_remaining_space, lines 73-82: the maximal allocation.
fill_par_allocate ==
  /\ Running /\ opc = "fill_loop"
  /\ LET r == loc.ri_region
         w == loc.free_word_size
     IN IF CanAllocate(r, w)
          THEN /\ top' = BumpTop(r, w)
               /\ granted' = granted \cup {Span(r, w, "filler", 0)}
               /\ opc' = "fill_done"
               /\ loc' = [loc EXCEPT !.result = @ + w * HeapWordSize,
                                     !.filled = @ \cup {r}]
          ELSE /\ opc' = "fill_reread"
               /\ UNCHANGED <<top, granted, loc>>
  /\ UNCHANGED <<kind, rstate, hooks, installed, sets, objVars, failed, ret, threadVars>>

\* Fault: the loop retries with the size it read before the failed attempt.
fill_reread_Stale ==
  /\ Running /\ opc = "fill_reread"
  /\ opc' = "fill_loop"
  /\ UNCHANGED <<kind, heapVars, objVars, failed, loc, ret, threadVars>>

\* line 84: the CAS failed, read free() again; line 73: test it.
fill_reread ==
  /\ Running /\ opc = "fill_reread"
  /\ LET fws == free(loc.ri_region) \div HeapWordSize
     IN /\ opc' = IF fws >= MinFillWords THEN "fill_loop" ELSE "fill_done"
        /\ loc' = [loc EXCEPT !.free_word_size = fws]
  /\ UNCHANGED <<kind, heapVars, objVars, failed, ret, threadVars>>

\* Fault: what is left below the minimum fill size is not counted as waste.
fill_done_NoRemainder ==
  /\ Running /\ opc = "fill_done"
  /\ LET r == loc.ri_region
     IN IF ~(free(r) \div HeapWordSize < MinFillWords)
          THEN Fail("fill_up_remaining_space: post-condition")
          ELSE /\ opc' = "hook"
               /\ loc' = [loc EXCEPT !.waste = loc.result]
               /\ UNCHANGED <<kind, heapVars, objVars, failed, ret, threadVars>>

\* lines 89-93: add what is left, check the post-condition, return.
fill_done ==
  /\ Running /\ opc = "fill_done"
  /\ LET r == loc.ri_region
     IN IF ~(free(r) \div HeapWordSize < MinFillWords)
          THEN Fail("fill_up_remaining_space: post-condition")
          ELSE /\ opc' = "hook"
               /\ loc' = [loc EXCEPT !.result = @ + free(r),
                                     !.waste = loc.result + free(r)]
               /\ UNCHANGED <<kind, heapVars, objVars, failed, ret, threadVars>>

\* retire_internal, line 108: the retire_region hook
\* (MutatorAllocRegion::retire_region, G1GCAllocRegion::retire_region).
retire_region ==
  /\ Running /\ opc = "hook"
  /\ LET r == loc.ri_region
     IN IF kind = "gc" /\ ~(used(r) >= used_bytes_before)
          THEN Fail("G1GCAllocRegion::retire_region: invariant")
          ELSE /\ hooks' = [hooks EXCEPT ![r] = @ + 1]
               /\ installed' = [installed EXCEPT ![r] = 0]
               /\ rstate' = [rstate EXCEPT ![r] = "retired"]
               /\ used_bytes_before' = IF kind = "gc" THEN 0 ELSE used_bytes_before
               /\ opc' = "ri_return"
               /\ loc' = [loc EXCEPT !.hooked = @ \cup {r},
                                     !.reported = IF kind = "gc"
                                                    THEN used(r) - used_bytes_before
                                                    ELSE used(r)]
               /\ UNCHANGED <<kind, top, granted, sets, alloc_region, count,
                              retained_alloc_region, wasted_bytes, stats,
                              failed, ret, threadVars>>

\* G1AllocRegion::reset_alloc_region
reset_alloc_region == alloc_region' = dummy_region

\* Fault: G1GCAllocRegion::retire without lines 343-345.
retire_return_base_NoStats ==
  /\ Running /\ opc = "ri_return" /\ loc.ri_cont = "base"
  /\ reset_alloc_region
  /\ RetireReturn(loc.waste, loc)
  /\ UNCHANGED <<kind, heapVars, count, retained_alloc_region, wasted_bytes,
                 used_bytes_before, stats, failed, threadVars>>

\* Fault: retire leaves the retired region as the active one.
retire_return_base_NoReset ==
  /\ Running /\ opc = "ri_return" /\ loc.ri_cont = "base"
  /\ stats' = IF loc.retired # nullptr
                THEN [calls |-> stats.calls + 1,
                      words |-> stats.words + loc.waste \div HeapWordSize]
                ELSE stats
  /\ RetireReturn(loc.waste, loc)
  /\ UNCHANGED <<kind, heapVars, alloc_region, count, retained_alloc_region,
                 wasted_bytes, used_bytes_before, failed, threadVars>>

\* G1AllocRegion::retire, lines 122-126, then G1GCAllocRegion::retire, 343-346.
retire_return_base ==
  /\ Running /\ opc = "ri_return" /\ loc.ri_cont = "base"
  /\ reset_alloc_region
  /\ stats' = IF loc.retired # nullptr
                THEN [calls |-> stats.calls + 1,
                      words |-> stats.words + loc.waste \div HeapWordSize]
                ELSE stats
  /\ RetireReturn(loc.waste, loc)
  /\ UNCHANGED <<kind, heapVars, count, retained_alloc_region, wasted_bytes,
                 used_bytes_before, failed, threadVars>>

\* Fault: MutatorAllocRegion::retire leaves the active region in place.
retire_return_mutator_NoReset ==
  /\ Running /\ opc = "ri_return" /\ loc.ri_cont \in {"mut_retained", "mut_current"}
  /\ retained_alloc_region' = IF loc.ri_cont = "mut_retained" THEN loc.region
                              ELSE retained_alloc_region
  /\ wasted_bytes' = wasted_bytes + loc.waste
  /\ RetireReturn(loc.waste, loc)
  /\ UNCHANGED <<kind, heapVars, alloc_region, count, used_bytes_before, stats,
                 failed, threadVars>>

\* MutatorAllocRegion::retire, lines 284-293.
retire_return_mutator ==
  /\ Running /\ opc = "ri_return" /\ loc.ri_cont \in {"mut_retained", "mut_current"}
  /\ retained_alloc_region' = IF loc.ri_cont = "mut_retained" THEN loc.region
                              ELSE retained_alloc_region
  /\ reset_alloc_region
  /\ wasted_bytes' = wasted_bytes + loc.waste
  /\ RetireReturn(loc.waste, loc)
  /\ UNCHANGED <<kind, heapVars, count, used_bytes_before, stats, failed, threadVars>>

\* ----------------------------------------------------------------- release
\* G1AllocRegion::release, lines 187-190; MutatorAllocRegion::release, 316.
release_post ==
  /\ Running /\ opc = "release_post"
  /\ ReleasePost(loc)

\* Fault: MutatorAllocRegion::release without line 318.
release_return_mutator_KeepsRetained ==
  /\ Running /\ opc = "ri_return" /\ loc.ri_cont = "mut_release"
  /\ wasted_bytes' = wasted_bytes + loc.waste
  /\ Return("release",
            IF loc.rel_region = dummy_region THEN nullptr ELSE loc.rel_region)
  /\ UNCHANGED <<kind, heapVars, alloc_region, count, retained_alloc_region,
                 used_bytes_before, stats, failed, threadVars>>

\* MutatorAllocRegion::release, lines 317-325.
release_return_mutator ==
  /\ Running /\ opc = "ri_return" /\ loc.ri_cont = "mut_release"
  /\ wasted_bytes' = wasted_bytes + loc.waste
  /\ retained_alloc_region' = nullptr
  /\ Return("release",
            IF loc.rel_region = dummy_region THEN nullptr ELSE loc.rel_region)
  /\ UNCHANGED <<kind, heapVars, alloc_region, count, used_bytes_before, stats,
                 failed, threadVars>>

\* ------------------------------------------------------------ specification
Next ==
  \/ init
  \/ set
  \/ reuse
  \/ new_alloc_region_and_allocate
  \/ new_alloc_region_publish
  \/ retire
  \/ release
  \/ should_retain_compare
  \/ retire_internal_enter
  \/ fill_par_allocate
  \/ fill_reread
  \/ fill_done
  \/ retire_region
  \/ retire_return_base
  \/ retire_return_mutator
  \/ release_post
  \/ release_return_mutator
  \/ \E t \in Allocators : Allocate_Load(t)
  \/ \E t \in Allocators : Allocate_ParAllocate(t)

Spec == Init /\ [][Next]_vars

\* Two allocators racing the owner's acquisition and retirement.
NextRace ==
  \/ init
  \/ new_alloc_region_and_allocate
  \/ new_alloc_region_publish
  \/ retire
  \/ fill_par_allocate
  \/ fill_reread
  \/ fill_done
  \/ retire_region
  \/ retire_return_base
  \/ \E t \in Threads : Allocate_Load(t)
  \/ \E t \in Threads : Allocate_ParAllocate(t)

InitRace == Init /\ kind = "gc"

SpecRace == InitRace /\ [][NextRace]_vars

\* Two allocators, one call each, racing for what the first allocation left
\* of the region just acquired.
FirstRegion == CHOOSE r \in Regions : \A q \in Regions : r <= q

InitDuel ==
  \E w \in AllocSizes :
    /\ kind \in {"mutator", "gc"}
    /\ top = [r \in {dummy_region} \cup Regions |->
                IF r = dummy_region THEN DummyTop
                ELSE IF r = FirstRegion THEN w ELSE 0]
    /\ rstate = [r \in Regions |-> IF r = FirstRegion THEN "held" ELSE "free"]
    /\ alloc_region = FirstRegion
    /\ count = 1
    /\ retained_alloc_region = nullptr
    /\ wasted_bytes = 0
    /\ used_bytes_before = 0
    /\ stats = [calls |-> 0, words |-> 0]
    /\ failed = "none"
    /\ opc = "idle"
    /\ loc = NoLocals
    /\ ret = [op |-> "new", value |-> FirstRegion]
    /\ tpc = [t \in Threads |-> "idle"]
    /\ treg = [t \in Threads |-> nullptr]
    /\ tsize = [t \in Threads |-> 0]
    /\ tres = [t \in Threads |-> "none"]
    /\ granted = {[r |-> FirstRegion, start |-> 0, size |-> w,
                   by |-> "first", who |-> 0]}
    /\ hooks = [r \in Regions |-> 0]
    /\ installed = [r \in Regions |-> 0]
    /\ sets = 0

NextDuel ==
  \/ \E t \in Threads : tres[t] = "none" /\ Allocate_Load(t)
  \/ \E t \in Threads : Allocate_ParAllocate(t)

\* An evacuation alloc region installed by reuse or by acquisition only.
NextEvac ==
  \/ init
  \/ reuse
  \/ new_alloc_region_and_allocate
  \/ new_alloc_region_publish
  \/ retire
  \/ release
  \/ fill_par_allocate
  \/ fill_reread
  \/ fill_done
  \/ retire_region
  \/ retire_return_base
  \/ release_post
  \/ \E t \in Allocators : Allocate_Load(t)
  \/ \E t \in Allocators : Allocate_ParAllocate(t)

SpecEvac == InitRace /\ [][NextEvac]_vars

SpecDuel == InitDuel /\ [][NextDuel]_vars

\* Two allocators racing the retirement of the region just acquired; the
\* owner thread, once in the fill-up loop, keeps running.
InitFill == InitDuel /\ kind = "gc"

NextFill ==
  \/ retire
  \/ fill_par_allocate
  \/ fill_reread
  \/ fill_done
  \/ retire_region
  \/ retire_return_base
  \/ \E t \in Threads : Allocate_Load(t)
  \/ \E t \in Threads : Allocate_ParAllocate(t)

LiveFill ==
  /\ InitFill /\ [][NextFill]_vars
  /\ WF_vars(fill_par_allocate) /\ WF_vars(fill_reread)

\* ------------------------------------------------------------- properties
RECURSIVE SumSizes(_)
SumSizes(S) ==
  IF S = {} THEN 0
  ELSE LET g == CHOOSE x \in S : TRUE IN g.size + SumSizes(S \ {g})

Overlap(a, b) ==
  /\ a.r = b.r
  /\ a.start < b.start + b.size
  /\ b.start < a.start + a.size

MinFillBytes == MinFillWords * HeapWordSize

\* C1: the active region, whenever it is neither unset nor the dummy, is
\* non-empty; the region being acquired has had its first allocation, and is
\* not yet the active region, before update_alloc_region publishes it.
C1_ActiveRegionNeverEmpty ==
  /\ alloc_region \in Regions => used(alloc_region) > 0
  /\ opc = "publish" => /\ used(loc.region) > 0
                        /\ alloc_region = dummy_region
  /\ \A t \in Threads : tpc[t] = "loaded" /\ treg[t] \in Regions
                          => used(treg[t]) > 0

\* An allocator has read the freshly published region as the active one.
C1_Witness ==
  /\ ret.op = "new" /\ alloc_region \in Regions
  /\ \E t \in Threads : tpc[t] = "loaded" /\ treg[t] = alloc_region

\* C2: no two spans granted in a region (first allocation, fast-path
\* allocations, filler) overlap, and the spans granted in a region sum to at
\* most the region's capacity.
C2_GrantsDisjoint ==
  /\ \A a, b \in granted : a # b => ~Overlap(a, b)
  /\ \A r \in Regions : SumSizes({g \in granted : g.r = r}) <= RegionWords

\* One region holds a first allocation, a fast-path allocation and a filler,
\* and each of the two allocator threads has been granted a span.
C2_Witness ==
  /\ \E r \in Regions :
       /\ \E g \in granted : g.r = r /\ g.by = "first"
       /\ \E g \in granted : g.r = r /\ g.by = "alloc"
       /\ \E g \in granted : g.r = r /\ g.by = "filler"
  /\ \A t \in Threads : \E g \in granted : g.by = "alloc" /\ g.who = t

\* retire(fill_up = true), called on a real active region with at least the
\* minimum fill size free, returns having retired that region through
\* retire_internal(region, true).
C3_RetireReturns ==
  /\ opc = "ri_return" /\ opc' = "idle"
  /\ loc.fill_up /\ loc.ri_cont \in {"base", "mut_current"}
  /\ loc.free0 >= MinFillBytes

\* Bytes the allocator threads were granted in r past the top it had when
\* free0 bytes were free.
Raced(r, free0) ==
  HeapWordSize * SumSizes({g \in granted : /\ g.r = r /\ g.by = "alloc"
                                           /\ g.start >= RegionWords - free0 \div HeapWordSize})

\* C3 as stated: the region is left with less than the minimum fill size free
\* and the waste returned is what was free when retire was called.
C3_WasteIsFreeAtCall ==
  [][C3_RetireReturns =>
       /\ free(loc.region) < MinFillBytes
       /\ ret'.value = loc.free0]_vars

\* C3: the region is left with less than the minimum fill size free, and the
\* waste returned is what was free when retire was called less what the
\* allocator threads were granted in the region since: never more than the
\* free bytes at the call, and equal to them only if no allocator got in.
C3_WasteIsFreeLessRaced ==
  [][C3_RetireReturns =>
       /\ free(loc.region) < MinFillBytes
       /\ ret'.value = loc.free0 - Raced(loc.region, loc.free0)
       /\ ret'.value <= loc.free0]_vars

\* A retire(true) is about to return less than was free at the call.
C3_Witness ==
  /\ opc = "ri_return" /\ loc.fill_up /\ loc.ri_cont \in {"base", "mut_current"}
  /\ loc.free0 >= MinFillBytes
  /\ loc.filled = {loc.region}
  /\ 0 < loc.waste /\ loc.waste < loc.free0

\* release() is called in the state an earlier release() left.
C4_SecondRelease ==
  /\ release
  /\ ret.op = "release" /\ alloc_region = nullptr

\* C4 as stated: the second of two release() calls with no init() in between
\* violates no assertion, retires no region and returns none.
C4_SecondReleaseSafe ==
  [][C4_SecondRelease =>
       /\ failed' = "none"
       /\ hooks' = hooks
       /\ ret'.op = "release" /\ ret'.value = nullptr]_vars

\* C4: the second of two release() calls with no init() in between finds the
\* active reference unset and fails an assertion (retire's, line 114, in the
\* evacuation variant; release's, line 187, in the mutator variant), having
\* retired no region and changed nothing.
C4_SecondReleaseFails ==
  [][C4_SecondRelease =>
       /\ failed' = IF kind = "gc" THEN "retire: not initialized properly"
                    ELSE "release: post-condition of retire()"
       /\ UNCHANGED <<heapVars, objVars, opc, ret>>]_vars

\* The assertion has failed in a release() that followed a release().
C4_Witness ==
  /\ failed # "none"
  /\ opc = "idle" /\ ret.op = "release" /\ alloc_region = nullptr

\* MutatorAllocRegion::retire decides, in this step, what to do with the
\* active region loc'.region, whose free() it read as loc'.free_bytes.
C5_Decides ==
  /\ kind = "mutator" /\ failed' = "none"
  /\ loc.ri_cont = "none"
  /\ loc'.ri_cont \in {"mut_retained", "mut_current"}

\* C5 as stated: the active region R becomes the retained region iff it has
\* at least MinTLABSize free and there is no retained region Q or R has
\* strictly more free than Q; otherwise R is the region passed to
\* retire_internal and Q is left alone.
C5_RetainedIffMoreFree ==
  [][C5_Decides =>
       LET R == loc'.region
           Q == retained_alloc_region
           retain == /\ loc'.free_bytes >= MinTLABSize
                     /\ Q = nullptr \/ loc'.free_bytes > free(Q)
       IN IF retain
            THEN loc'.kept = R /\ loc'.ri_cont = "mut_retained"
            ELSE /\ loc'.kept = nullptr /\ loc'.ri_cont = "mut_current"
                 /\ loc'.ri_region = R]_vars

\* C6: the dummy region's free() is 0, no request fits in it and no span was
\* ever granted in it; a fast-path allocation that read the dummy as the
\* active region returns null and changes no region and nothing of the
\* alloc region object.
C6_DummyNeverAllocates ==
  /\ [](/\ free(dummy_region) = 0
        /\ \A w \in 1..RegionWords : ~CanAllocate(dummy_region, w)
        /\ \A g \in granted : g.r # dummy_region)
  /\ [][\A t \in Threads :
          tpc[t] = "loaded" /\ treg[t] = dummy_region /\ tpc'[t] = "idle"
            => /\ tres'[t] = "null"
               /\ UNCHANGED <<heapVars, objVars, failed>>]_vars

\* An allocator thread was refused while the object was IDLE and no region
\* had been acquired yet: the attempt was against the dummy.
C6_Witness ==
  /\ alloc_region = dummy_region /\ count = 0 /\ granted = {}
  /\ \E t \in Threads : tpc[t] = "idle" /\ tres[t] = "null"

\* Words free in the active region when the two allocators set out.
C7_FreeAtStart ==
  RegionWords - SumSizes({g \in granted : g.r = alloc_region /\ g.by = "first"})

\* Both allocators have returned; each asked for no more than was free, and
\* together for more.
C7_RaceOver ==
  /\ \A t \in Threads : tpc[t] = "idle" /\ tres[t] \in {"ok", "null"}
  /\ \A t \in Threads : tsize[t] <= C7_FreeAtStart
  /\ SumSizes({[size |-> tsize[t], who |-> t] : t \in Threads}) > C7_FreeAtStart

\* C7: of two allocators racing for a region that can hold either request but
\* not both, exactly one succeeds and the other gets null; an allocator gets
\* null only if, at its attempt, the region had less free than it asked for.
C7_ExactlyOneWins ==
  /\ [](C7_RaceOver => Cardinality({t \in Threads : tres[t] = "ok"}) = 1)
  /\ [][\A t \in Threads :
          tpc[t] = "loaded" /\ tpc'[t] = "idle" /\ tres'[t] = "null"
            => free(treg[t]) < tsize[t] * HeapWordSize]_vars

\* The race is over and the allocator that lost asked for less than the winner.
C7_Witness ==
  /\ C7_RaceOver
  /\ \E t, u \in Threads :
       tres[t] = "null" /\ tres[u] = "ok" /\ tsize[t] < tsize[u]

\* C8: a failed maximal allocation means the region has less free than was
\* read before the attempt, and the fill-up loop, once entered, is left.
C8_FillUpTerminates ==
  /\ [](opc = "fill_reread"
          => free(loc.ri_region) \div HeapWordSize < loc.free_word_size)
  /\ (opc \in {"fill_loop", "fill_reread"}) ~> (opc = "fill_done" \/ failed # "none")

\* The loop is left after a lost race: the filler stamped is smaller than what
\* was free when retire was called.
C8_Witness ==
  /\ opc = "fill_done"
  /\ loc.filled = {loc.ri_region}
  /\ loc.result < loc.free0

\* retire(fill_up) is called while the active region is the dummy.
C9_RetireOnDummy == retire /\ alloc_region = dummy_region

\* retire(fill_up) returns to its caller having retired a real region.
C9_RetireReturns ==
  /\ opc = "ri_return" /\ opc' # "ri_return"
  /\ loc.ri_cont \in {"base", "mut_retained", "mut_current"}

\* C9: retire on the dummy returns 0, calls no hook, stamps no filler and
\* leaves the active region and the count as they were; retire on a real
\* region leaves the dummy as the active region.
C9_RetireFrame ==
  [][/\ C9_RetireOnDummy =>
          /\ ret' = [op |-> "retire", value |-> 0]
          /\ opc' = "idle"
          /\ UNCHANGED <<heapVars, objVars, failed>>
     /\ C9_RetireReturns => alloc_region' = dummy_region]_vars

\* One region was acquired and retired, the dummy is the active region, and
\* retire has returned no waste.
C9_Witness ==
  /\ ret = [op |-> "retire", value |-> 0]
  /\ alloc_region = dummy_region /\ count = 1
  /\ \E r \in Regions : hooks[r] = 1

\* release(), called in state IDLE or ACTIVE, returns in this step.
C10_ReleaseReturns ==
  /\ ret'.op = "release" /\ opc' = "idle" /\ failed' = "none"
  /\ opc # "idle" \/ alloc_region' # alloc_region

\* The active region when that release() was called.
C10_Captured == IF opc = "idle" THEN alloc_region ELSE loc.rel_region

\* C10: release() returns the region that was active at the call (none for
\* the dummy), leaves the active reference unset and the returned region
\* retired by this call without a filler; then init's precondition holds and
\* no other operation's does.
C10_ReleaseContract ==
  [][C10_ReleaseReturns =>
       /\ ret'.value = IF C10_Captured = dummy_region THEN nullptr
                       ELSE C10_Captured
       /\ alloc_region' = nullptr
       /\ C10_Captured \in Regions =>
            /\ C10_Captured \in loc.hooked
            /\ C10_Captured \notin loc.filled
            /\ rstate'[C10_Captured] = "retired"
       /\ pre_init'
       /\ ~pre_retire' /\ ~pre_new_alloc_region_and_allocate'
       /\ ~pre_attempt_allocation'
       /\ \A r \in Regions : ~pre_set(r)']_vars

\* release() has returned a real region it found with room for a filler.
C10_Witness ==
  /\ opc = "idle" /\ failed = "none" /\ alloc_region = nullptr
  /\ ret.op = "release" /\ ret.value \in Regions
  /\ free(ret.value) >= MinFillBytes

\* Bytes of filler stamped in region r.
FillerBytes(r) ==
  HeapWordSize * SumSizes({g \in granted : g.r = r /\ g.by = "filler"})

\* new_alloc_region_and_allocate returns without a region in this step.
C11_AcquisitionRefused ==
  /\ new_alloc_region_and_allocate
  /\ opc' = "idle"

\* C11: an acquisition the heap refuses returns null and leaves the object
\* and the heap as they were: the dummy is still the active region, the count
\* is not incremented, no assertion fails, and the precondition of a further
\* acquisition holds.
C11_RefusedAcquisitionFrame ==
  [][C11_AcquisitionRefused =>
       /\ ret' = [op |-> "new", value |-> nullptr]
       /\ UNCHANGED <<heapVars, objVars, failed>>
       /\ alloc_region' = dummy_region
       /\ pre_new_alloc_region_and_allocate']_vars

\* The heap has no free region left and the acquisition returned null.
C11_Witness ==
  /\ opc = "idle" /\ failed = "none"
  /\ ret = [op |-> "new", value |-> nullptr]
  /\ \A r \in Regions : rstate[r] # "free"
  /\ alloc_region = dummy_region /\ count = Cardinality(Regions)

\* MutatorAllocRegion::retire, having decided to retain the active region,
\* returns in this step.
C12_RetainReturns ==
  /\ kind = "mutator"
  /\ opc = "ri_return" /\ opc' # "ri_return"
  /\ loc.ri_cont = "mut_retained"

\* C12: when MutatorAllocRegion::retire retains the active region R, R becomes
\* the retained region without being passed to the retire_region hook, the
\* dummy becomes the active region, a region Q retained before is retired with
\* fill-up whatever the caller's fill_up and passed to the hook, and the waste
\* returned is Q's (its filler plus what is left free), 0 when there is no Q.
C12_RetainContract ==
  [][C12_RetainReturns =>
       LET R == loc.region
           Q == retained_alloc_region
           waste == IF loc.in_release THEN loc'.waste ELSE ret'.value
       IN /\ R \in Regions /\ loc.kept = R
          /\ retained_alloc_region' = R
          /\ R \notin loc.hooked /\ R \notin loc.filled
          /\ rstate'[R] = "held" /\ hooks'[R] = hooks[R]
          /\ alloc_region' = dummy_region
          /\ IF Q = nullptr
               THEN loc.hooked = {} /\ loc.filled = {} /\ waste = 0
               ELSE /\ Q # R
                    /\ loc.hooked = {Q} /\ rstate'[Q] = "retired"
                    /\ loc.ri_fill
                    /\ free(Q) < MinFillBytes
                    /\ waste = FillerBytes(Q) + free(Q)]_vars

\* retire(false) has retained the active region and is about to return: the
\* region retained before was filled and passed to the hook.
C12_Witness ==
  /\ kind = "mutator" /\ opc = "ri_return" /\ loc.ri_cont = "mut_retained"
  /\ ~loc.fill_up /\ ~loc.in_release
  /\ retained_alloc_region \in Regions
  /\ loc.filled = {retained_alloc_region}
  /\ loc.waste > 0

\* C13: between the operations of a MutatorAllocRegion the retained region,
\* when there is one, is a real region other than the active one, and it is
\* the only region the object holds besides the active one.
C13_RetainedIsNotActive ==
  (kind = "mutator" /\ opc = "idle" /\ failed = "none") =>
     /\ retained_alloc_region # nullptr =>
          /\ retained_alloc_region \in Regions
          /\ retained_alloc_region # dummy_region
          /\ retained_alloc_region # alloc_region
     /\ {r \in Regions : rstate[r] = "held"} \ {alloc_region}
          = {retained_alloc_region} \ {nullptr}

\* A region is retained while another real region is the active one.
C13_Witness ==
  /\ kind = "mutator" /\ opc = "idle" /\ failed = "none"
  /\ retained_alloc_region \in Regions
  /\ alloc_region \in Regions

\* MutatorAllocRegion::retire returns in this step.
C14_RetireReturns ==
  /\ opc = "ri_return" /\ opc' # "ri_return"
  /\ loc.ri_cont \in {"mut_retained", "mut_current"}

\* The waste of the retirement that retire performed: the filler it stamped in
\* the region it passed to retire_internal with fill-up, and what that region
\* has left free.
C14_PerformedWaste ==
  IF loc.ri_region # nullptr /\ loc.ri_fill
    THEN (IF loc.ri_region \in loc.filled THEN FillerBytes(loc.ri_region) ELSE 0)
         + free(loc.ri_region)
    ELSE 0

\* C14 as stated: no operation ever lowers the wasted-byte counter.
C14_WastedNeverLowered ==
  [][wasted_bytes' >= wasted_bytes]_vars

\* C14: init sets the wasted-byte counter to 0; retire raises it by the waste
\* of the retirement it performed; the retirement of the retained region in
\* release adds nothing; no other step changes it.
C14_WastedPerCycle ==
  [][kind = "mutator" =>
       IF init THEN wasted_bytes' = 0
       ELSE IF C14_RetireReturns
         THEN /\ wasted_bytes' = wasted_bytes + C14_PerformedWaste
              /\ wasted_bytes' >= wasted_bytes
       ELSE wasted_bytes' = wasted_bytes]_vars

\* init has just reset the counter of an object that had filled a region.
C14_Witness ==
  /\ kind = "mutator" /\ opc = "idle" /\ ret.op = "init"
  /\ wasted_bytes = 0
  /\ \E g \in granted : g.by = "filler"

\* The retire_region hook of an evacuation alloc region is invoked in this step.
C15_Hook ==
  /\ kind = "gc" /\ opc = "hook" /\ failed = "none"
  /\ opc' # "hook" \/ failed' # "none"

\* Bytes of the spans handed out in region r at or above word from.
BytesSince(r, from) ==
  HeapWordSize * SumSizes({g \in granted : g.r = r /\ g.start >= from})

\* C15: whenever G1GCAllocRegion::retire_region is invoked the region's used()
\* is at least the snapshot, the bytes reported are those handed out in the
\* region (filler included) since it was made the active region, that is
\* used() less used() at reuse, or all of used() after an acquisition, and the
\* snapshot is 0 afterwards.
C15_ReportedSinceInstalled ==
  [][C15_Hook =>
       LET r == loc.ri_region
       IN /\ used(r) >= used_bytes_before
          /\ failed' = "none"
          /\ loc'.reported = used(r) - installed[r] * HeapWordSize
          /\ loc'.reported = BytesSince(r, installed[r])
          /\ used_bytes_before' = 0]_vars

\* A reused region was retired: part of its used bytes were reported.
C15_Witness ==
  /\ kind = "gc" /\ opc = "ri_return" /\ sets = 1
  /\ 0 < loc.reported /\ loc.reported < used(loc.ri_region)
  /\ used_bytes_before = 0

\* Calls of the retire_region hook so far.
SumHooks == SumSizes({[size |-> hooks[r], who |-> r] : r \in Regions})

\* C16: between the operations of an evacuation alloc region the statistics
\* have been told of one region end per retired region; they change only when
\* G1GCAllocRegion::retire returns from retiring a real active region, by one
\* call and by the returned waste in words.
C16_StatsOncePerRetirement ==
  /\ []((kind = "gc" /\ opc = "idle" /\ failed = "none") => stats.calls = SumHooks)
  /\ [][stats' # stats =>
          /\ kind = "gc" /\ opc = "ri_return" /\ loc.ri_cont = "base"
          /\ loc.retired \in Regions /\ loc.retired \in loc.hooked
          /\ stats'.calls = stats.calls + 1
          /\ stats'.words = stats.words
               + (IF loc.in_release THEN loc'.waste ELSE ret'.value) \div HeapWordSize]_vars

\* Two regions were retired, one of them with waste, and retire was then
\* called on the dummy.
C16_Witness ==
  /\ kind = "gc" /\ opc = "idle" /\ failed = "none"
  /\ ret = [op |-> "retire", value |-> 0]
  /\ stats.calls = 2 /\ stats.words > 0 /\ SumHooks = 2
  /\ \A r \in Regions : FillerBytes(r) > 0

\* C17: when MutatorAllocRegion::release returns no region is retained; the
\* region retained until then (the active region of the call, if release's
\* retire retained it) was passed to the hook by this call without a filler
\* and added nothing to the wasted-byte counter.
C17_ReleaseClearsRetained ==
  /\ []((kind = "mutator" /\ opc = "idle" /\ failed = "none"
           /\ alloc_region = nullptr) => retained_alloc_region = nullptr)
  /\ [][(kind = "mutator" /\ C10_ReleaseReturns) =>
          LET X == retained_alloc_region
          IN /\ retained_alloc_region' = nullptr
             /\ loc.kept # nullptr => X = loc.kept /\ X = loc.rel_region
             /\ X # nullptr =>
                  /\ loc.ri_region = X /\ ~loc.ri_fill
                  /\ X \in loc.hooked /\ X \notin loc.filled
                  /\ rstate'[X] = "retired"
                  /\ loc.waste = 0
                  /\ wasted_bytes' = wasted_bytes]_vars

\* release has returned the region its own retire had retained, having
\* displaced and filled the one retained before.
C17_Witness ==
  /\ kind = "mutator" /\ opc = "idle" /\ failed = "none"
  /\ ret.op = "release" /\ ret.value \in Regions
  /\ retained_alloc_region = nullptr
  /\ free(ret.value) >= MinTLABSize
  /\ \E q \in Regions : q # ret.value /\ FillerBytes(q) > 0
  /\ \A r \in Regions : rstate[r] = "retired"

\* C18: a fast-path allocation, at either of its steps and whatever its
\* result, leaves the active region, the count and the retained region as
\* they were; the active region changes only in a step of init, set (reuse),
\* new_alloc_region_and_allocate, retire or release.
C18_FastPathFrame ==
  [][/\ \A t \in Threads :
          (Allocate_Load(t) \/ Allocate_ParAllocate(t))
            => UNCHANGED <<alloc_region, count, retained_alloc_region>>
     /\ alloc_region' # alloc_region =>
          /\ \/ init \/ set \/ reuse \/ new_alloc_region_publish
             \/ retire_return_base \/ retire_return_mutator
             \/ release \/ release_post
          /\ UNCHANGED threadVars]_vars

\* An allocator was refused by a real active region of a mutator alloc region
\* that also retains one.
C18_Witness ==
  /\ kind = "mutator" /\ opc = "idle"
  /\ alloc_region \in Regions /\ retained_alloc_region \in Regions
  /\ count = 2
  /\ \E t \in Threads : tpc[t] = "idle" /\ tres[t] = "null"
  /\ \A r \in Regions : free(r) < MinFillBytes

\* C19: init sets the count to 0; any other step raises it by one if it makes
\* a real region the active one and leaves it alone otherwise.
C19_CountsPublications ==
  [][IF init THEN count' = 0
     ELSE count' = count + (IF alloc_region' \in Regions
                               /\ alloc_region' # alloc_region THEN 1 ELSE 0)]_vars

\* A region was installed by set or reuse and, after its retirement, another
\* was acquired.
C19_Witness ==
  /\ opc = "idle" /\ failed = "none"
  /\ count = 2 /\ sets = 1
  /\ alloc_region \in Regions /\ ret.op = "new"

\* retire(fill_up = true) returns having passed the active region to
\* retire_internal with fill-up.
C20_FillRetireReturns ==
  /\ opc = "ri_return" /\ opc' = "idle"
  /\ loc.fill_up /\ loc.ri_cont \in {"base", "mut_current"}

\* Bytes handed out to allocators in region r: the first allocation and the
\* fast-path allocations.
GrantedBytes(r) ==
  HeapWordSize * SumSizes({g \in granted : g.r = r /\ g.by \in {"first", "alloc"}})

RegionBytes == RegionWords * HeapWordSize

\* C20 as stated: the capacity of the region is what allocators were granted
\* plus the waste returned, the waste being the filler stamped in the region
\* plus what is left free.
C20_CapacityIsGrantedPlusWaste ==
  [][C20_FillRetireReturns =>
       LET r == loc.region
       IN /\ RegionBytes = GrantedBytes(r) + ret'.value
          /\ ret'.value = FillerBytes(r) + free(r)]_vars

\* C20: the capacity of the region is what allocators were granted plus the
\* filler stamped in it plus what is left free (less than the minimum fill
\* size); the waste returned is the filler this retirement stamped plus what is
\* left free, so capacity is granted plus waste unless the region carries the
\* filler of an earlier retirement.
C20_CapacityIsGrantedFillerFree ==
  [][C20_FillRetireReturns =>
       LET r == loc.region
           stamped == IF r \in loc.filled THEN FillerBytes(r) ELSE 0
       IN /\ RegionBytes = GrantedBytes(r) + FillerBytes(r) + free(r)
          /\ free(r) < MinFillBytes
          /\ ret'.value = stamped + free(r)
          /\ (r \in loc.filled \/ FillerBytes(r) = 0)
               => RegionBytes = GrantedBytes(r) + ret'.value]_vars

\* A retire(true) that lost a race to an allocator and then stamped a filler
\* is about to return.
C20_Witness ==
  /\ opc = "ri_return" /\ loc.fill_up /\ loc.ri_cont \in {"base", "mut_current"}
  /\ loc.filled = {loc.region}
  /\ Raced(loc.region, loc.free0) > 0
  /\ GrantedBytes(loc.region) + FillerBytes(loc.region) = RegionBytes

\* The retire_region hook is invoked in this step and hands its region back.
C21_HandsBack == opc = "hook" /\ failed = "none" /\ hooks' # hooks

\* The regions the object refers to: the active and the retained one.
Referenced == {alloc_region, retained_alloc_region} \cap Regions

\* Between operations the object holds what it refers to and nothing else,
\* and after release() it holds nothing.
C21_HeldIsReferenced ==
  (opc = "idle" /\ failed = "none") =>
     /\ \A r \in Regions : rstate[r] = "held" <=> r \in Referenced
     /\ alloc_region = nullptr => \A r \in Regions : rstate[r] # "held"

\* A region is handed back only if it is held, and is held no longer then.
C21_OncePerInstallation ==
  C21_HandsBack =>
    LET r == loc.ri_region
    IN /\ rstate[r] = "held" /\ rstate'[r] = "retired"
       /\ hooks' = [hooks EXCEPT ![r] = @ + 1]

\* C21 as stated: every region acquired or installed is handed back through
\* the retire_region hook exactly once, never while it is still the active or
\* the retained region, and none is left un-retired after release().
C21_HandedBackUnreferenced ==
  /\ [](C21_HeldIsReferenced)
  /\ [][C21_OncePerInstallation]_vars
  /\ [][C21_HandsBack => loc.ri_region \notin Referenced]_vars

\* C21: every region acquired or installed is handed back through the
\* retire_region hook exactly once for each time it was acquired or installed;
\* the hook is invoked while the region still is the active or the retained
\* region, which it has stopped being when the operation returns; none is
\* left un-retired after release().
C21_HandedBackOncePerInstallation ==
  /\ [](C21_HeldIsReferenced)
  /\ [][C21_OncePerInstallation]_vars
  /\ [][C21_HandsBack => loc.ri_region \in Referenced]_vars

\* A mutator alloc region was released after two acquisitions: the active
\* and the retained region were each handed back once.
C21_Witness ==
  /\ kind = "mutator" /\ opc = "idle" /\ failed = "none"
  /\ ret.op = "release" /\ ret.value \in Regions
  /\ sets = 0 /\ count = 2
  /\ \A r \in Regions : hooks[r] = 1 /\ rstate[r] = "retired"
  /\ Referenced = {}

\* retire_internal(r, true) hands r back to the heap in this step.
C22_FilledHandsBack == C21_HandsBack /\ loc.ri_fill

\* Region r has less free space than the smallest request.
C22_Closed(r) == free(r) < MinFillBytes

\* C22: a region retired with fill-up is closed when it is handed to the heap
\* and when retire(true) returns; a fast-path allocation of at least the
\* minimum fill size attempted on a closed region by a thread that read the
\* reference earlier returns null; the used bytes of a closed region never
\* change again.
C22_FilledRegionIsClosed ==
  /\ [][C22_FilledHandsBack =>
          C22_Closed(loc.ri_region) /\ rstate'[loc.ri_region] = "retired"]_vars
  /\ [][C20_FillRetireReturns =>
          C22_Closed(loc.region) /\ rstate[loc.region] = "retired"]_vars
  /\ [][\A t \in Threads :
          (/\ Allocate_ParAllocate(t)
           /\ treg[t] \in Regions /\ C22_Closed(treg[t])
           /\ tsize[t] >= MinFillWords)
            => tres'[t] = "null" /\ top' = top /\ granted' = granted]_vars
  /\ [][\A r \in Regions : C22_Closed(r) => top'[r] = top[r]]_vars

\* retire(true) has returned; an allocator that read the reference before
\* still holds the region, now filled and handed back, and is about to
\* allocate in it.
C22_Witness ==
  /\ opc = "idle" /\ failed = "none" /\ ret.op = "retire"
  /\ alloc_region = dummy_region
  /\ \E t \in Threads :
       /\ tpc[t] = "loaded" /\ treg[t] \in Regions
       /\ tsize[t] >= MinFillWords
       /\ rstate[treg[t]] = "retired" /\ hooks[treg[t]] = 1
       /\ FillerBytes(treg[t]) > 0
       /\ C22_Closed(treg[t])

====
